---- MODULE Spec2Model ----
(***************************************************************************)
(* The news proxy worker: three editions of handleRequest (the first       *)
(* GNews -> NewsAPI edition, the triple Bing -> GNews -> NewsAPI edition,  *)
(* both in worker-source/worker.js, and the final double edition), their   *)
(* provider adapters, and the response builders.                           *)
(*                                                                         *)
(* Strings the code concatenates (messages, the NewsAPI/Bing q parameter)  *)
(* are sequences of fragments, so that concatenation is \o.  The Chinese   *)
(* message literals of the source are written in English.                  *)
(***************************************************************************)
EXTENDS Integers, Sequences, FiniteSets, TLC

VARIABLES
    variant,    \* which edition of the worker is deployed
    cred,       \* the secrets GNEWS_API_KEY, NEWS_API_KEY, BING_NEWS_API_KEY
    reqs,       \* the inbound requests of this run
    pc,         \* per request: position of handleRequest
    query,      \* per request: country, topic, q read from the URL
    idx,        \* per request: position in the provider order
    result,     \* per request: the variable `result` of handleRequest
    outcomes,   \* per request: every value `result` has taken, in order
    calls,      \* per request: the outbound fetch calls issued, in order
    response,   \* per request: what handleRequest returned
    log,        \* per request: console.log lines
    attempts,   \* per request: the adapters handleRequest has invoked, in order
    answer,     \* per request: what fetch gave the adapter that returned last
    upstream    \* how the providers behave in this run

vars == <<variant, cred, reqs, pc, query, idx, result, outcomes, calls, response, log,
          attempts, answer, upstream>>

----------------------------------------------------------------------------
(* Bounds and input sets *)

MaxKeyLen == 5

\* the request slots; Spec serves request 1, requests share no state
RequestIds == {1, 2}

Variants == {"first", "double", "triple"}

Providers == {"Bing", "GNews", "NewsAPI"}

NULL == "<null>"

Countries == {NULL, "us", "cn", "hk"}

Topics == {NULL, "technology", "crypto", "sports"}

Queries == {NULL, "bitcoin"}

\* a sortby the caller puts in the query string; only the first edition reads
\* url.search, so only there can the caller's own parameters reach a provider
CallerSorts(v) == IF v = "first" THEN {NULL, "relevance"} ELSE {NULL}

\* a lang the caller puts in the query string, read the same way
CallerLangs(v) == IF v = "first" THEN {NULL, "fr"} ELSE {NULL}

\* the providers of a run answer anything at all ("free"), or they are a fixed
\* function of the outbound call
Upstreams == {"rejectsLang", "quota", "down"}

\* the inbound requests a run draws from: every filter combination when the
\* providers are free; a smaller family, with a caller's lang, when they are fixed
Inbound(v, u) ==
    IF u = "free"
    THEN {[country |-> c, topic |-> t, q |-> q, sortby |-> s, lang |-> NULL] :
              c \in Countries, t \in Topics, q \in Queries, s \in CallerSorts(v)}
    ELSE {[country |-> c, topic |-> t, q |-> q, sortby |-> NULL, lang |-> l] :
              c \in {NULL, "cn"}, t \in {NULL, "technology"}, q \in Queries,
              l \in CallerLangs(v)}

Statuses == {200, 201, 400, 403, 404, 429, 500}

KeyChars == <<"k", "e", "y", "0", "1", "2", "3", "4", "5", "6">>

----------------------------------------------------------------------------
(* Program constants *)

MIN_KEY_LENGTH == 5

GNEWS_API_URL == "https://gnews.io/api/v4/top-headlines"

GNEWS_SEARCH_URL == "https://gnews.io/api/v4/search"

NEWSAPI_URL == "https://newsapi.org/v2/top-headlines"

NEWSAPI_SEARCH_URL == "https://newsapi.org/v2/everything"

BING_NEWS_URL == "https://api.bing.microsoft.com/v7.0/news/search"

GNEWS_SORT == "publishedAt"

NEWSAPI_SORT == "publishedAt"

NEWSAPI_HEADERS == [n \in {"User-Agent"} |-> <<"news-aggregator-app-v1">>]

BING_HEADERS(apiKey) ==
    [n \in {"Ocp-Apim-Subscription-Key", "User-Agent"} |->
        IF n = "User-Agent" THEN <<"news-aggregator-app-v1">> ELSE apiKey]

----------------------------------------------------------------------------
(* JavaScript values *)

\* if (x): null, undefined and the empty string are falsy
Truthy(s) == s # NULL /\ s # ""

\* a secret binding: undefined, or a string of some length
Undefined == [defined |-> FALSE, key |-> <<>>]

KeyOfLen(n) == [defined |-> TRUE, key |-> SubSeq(KeyChars, 1, n)]

KeyLens == (MIN_KEY_LENGTH - 1) .. MaxKeyLen

Secrets == {Undefined} \cup {KeyOfLen(n) : n \in KeyLens}

\* typeof KEY === 'undefined' || KEY.length < 5
KeyMissing(k) == ~k.defined \/ Len(k.key) < MIN_KEY_LENGTH

OkOnly200(status) == status = 200

\* response.ok
Ok(status) == status >= 200 /\ status <= 299

\* URLSearchParams: set and delete on a map from names to values
EmptyParams == [n \in {} |-> <<>>]

ParamSet(p, name, value) ==
    [n \in DOMAIN p \cup {name} |-> IF n = name THEN value ELSE p[n]]

ParamDelete(p, name) == [n \in DOMAIN p \ {name} |-> p[n]]

\* if (v) p.set(name, v)
ParamSetIf(p, name, v) == IF Truthy(v) THEN ParamSet(p, name, <<v>>) ELSE p

----------------------------------------------------------------------------
(* Outbound calls: what each adapter passes to fetch *)

NoHeaders == [n \in {} |-> <<>>]

Call(provider, url, params, headers) ==
    [provider |-> provider, url |-> url, params |-> params, headers |-> headers]

\* url.search of the inbound request, as URLSearchParams reads it
InboundParams(qy) ==
    LET p1 == ParamSetIf(EmptyParams, "sortby", qy.sortby)
        p2 == ParamSetIf(p1, "lang", qy.lang)
        p3 == ParamSetIf(p2, "country", qy.country)
        p4 == ParamSetIf(p3, "topic", qy.topic)
    IN  ParamSetIf(p4, "q", qy.q)

GNewsCallFirstKeepsCaller(qy) ==
    LET inbound == InboundParams(qy)
        gnewsQueryParams == IF "sortby" \in DOMAIN inbound THEN inbound
                            ELSE ParamSet(inbound, "sortby", <<GNEWS_SORT>>)
        targetEndpoint == IF Truthy(qy.q) THEN GNEWS_SEARCH_URL ELSE GNEWS_API_URL
    IN  Call("GNews", targetEndpoint, gnewsQueryParams, NoHeaders)

\* first edition: the caller's query string is forwarded, sortby is forced
GNewsCallFirst(qy) ==
    LET gnewsQueryParams == ParamSet(InboundParams(qy), "sortby", <<GNEWS_SORT>>)
        targetEndpoint == IF Truthy(qy.q) THEN GNEWS_SEARCH_URL ELSE GNEWS_API_URL
    IN  Call("GNews", targetEndpoint, gnewsQueryParams, NoHeaders)

\* sortby, token, then country, topic, q as supplied (common to both later editions)
GNewsBaseParams(qy, key) ==
    LET p1 == ParamSet(EmptyParams, "sortby", <<GNEWS_SORT>>)
        p2 == ParamSet(p1, "token", key)
        p3 == ParamSetIf(p2, "country", qy.country)
        p4 == ParamSetIf(p3, "topic", qy.topic)
    IN  ParamSetIf(p4, "q", qy.q)

\* triple edition: search endpoint whenever q or topic is given, nothing removed
GNewsCallTriple(qy, key) ==
    LET targetEndpoint == IF Truthy(qy.q) \/ Truthy(qy.topic)
                          THEN GNEWS_SEARCH_URL ELSE GNEWS_API_URL
    IN  Call("GNews", targetEndpoint, GNewsBaseParams(qy, key), NoHeaders)

\* final double edition: endpoint by query shape, unsupported parameters removed
GNewsCallDouble(qy, key) ==
    LET p0 == GNewsBaseParams(qy, key)
        targetEndpoint == IF Truthy(qy.q) THEN GNEWS_SEARCH_URL ELSE GNEWS_API_URL
        p1 == IF Truthy(qy.q) THEN ParamDelete(p0, "topic")
              ELSE IF Truthy(qy.topic) THEN ParamDelete(p0, "q")
              ELSE ParamDelete(ParamDelete(p0, "q"), "topic")
        p2 == IF qy.country \in {"cn", "hk"} /\ Truthy(qy.topic)
              THEN ParamDelete(p1, "country") ELSE p1
    IN  Call("GNews", targetEndpoint, p2, NoHeaders)

NewsApiTopicMap(topic) ==
    CASE topic = "business" -> <<"business">>
      [] topic = "technology" -> <<"technology">>
      [] topic = "crypto" -> <<"cryptocurrency OR bitcoin">>
      [] OTHER -> <<topic>>

\* fullQuery = query || "" ; if (topic) fullQuery += (fullQuery ? ' AND ' : '') + word
FullQuery(q, topic, word) ==
    LET fullQuery == IF Truthy(q) THEN <<q>> ELSE <<>>
    IN  IF Truthy(topic)
        THEN fullQuery \o (IF fullQuery # <<>> THEN <<" AND ">> ELSE <<>>) \o word
        ELSE fullQuery

NewsApiBaseParams(key) ==
    ParamSet(ParamSet(EmptyParams, "apiKey", key), "sortBy", <<NEWSAPI_SORT>>)

NewsApiSearchParamsNoLanguage(qy, key, word) ==
    ParamSet(NewsApiBaseParams(key), "q", FullQuery(qy.q, qy.topic, word))

\* the /everything branch shared by the three editions
NewsApiSearchParams(qy, key, word) ==
    LET p1 == ParamSet(NewsApiBaseParams(key), "q", FullQuery(qy.q, qy.topic, word))
    IN  IF qy.country \in {"cn", "hk"} THEN ParamSet(p1, "language", <<"zh">>) ELSE p1

\* the else branch of the first and triple editions: topic is falsy there
NewsApiHeadlineParams(qy, key) ==
    LET p1 == ParamSetIf(NewsApiBaseParams(key), "country", qy.country)
    IN  ParamSetIf(p1, "category", qy.topic)

NewsApiCallFirst(qy, key) ==
    IF Truthy(qy.q) \/ Truthy(qy.topic)
    THEN Call("NewsAPI", NEWSAPI_SEARCH_URL,
              NewsApiSearchParams(qy, key, <<qy.topic>>), NEWSAPI_HEADERS)
    ELSE Call("NewsAPI", NEWSAPI_URL, NewsApiHeadlineParams(qy, key), NEWSAPI_HEADERS)

NewsApiCallTriple(qy, key) ==
    IF Truthy(qy.q) \/ Truthy(qy.topic)
    THEN Call("NewsAPI", NEWSAPI_SEARCH_URL,
              NewsApiSearchParams(qy, key, NewsApiTopicMap(qy.topic)), NEWSAPI_HEADERS)
    ELSE Call("NewsAPI", NEWSAPI_URL, NewsApiHeadlineParams(qy, key), NEWSAPI_HEADERS)

NewsApiCallDouble(qy, key) ==
    IF Truthy(qy.q)
       \/ (Truthy(qy.topic) /\ qy.topic # "business" /\ qy.topic # "technology")
    THEN Call("NewsAPI", NEWSAPI_SEARCH_URL,
              NewsApiSearchParams(qy, key, NewsApiTopicMap(qy.topic)), NEWSAPI_HEADERS)
    ELSE IF Truthy(qy.topic) /\ (qy.topic = "business" \/ qy.topic = "technology")
    THEN Call("NewsAPI", NEWSAPI_URL,
              ParamSet(ParamSetIf(NewsApiBaseParams(key), "country", qy.country),
                       "category", <<qy.topic>>),
              NEWSAPI_HEADERS)
    ELSE Call("NewsAPI", NEWSAPI_URL,
              ParamSetIf(NewsApiBaseParams(key), "country", qy.country),
              NEWSAPI_HEADERS)

MktMap(country) ==
    CASE country = "us" -> "en-US"
      [] country = "gb" -> "en-GB"
      [] country = "cn" -> "zh-CN"
      [] country = "hk" -> "zh-HK"
      [] country = "jp" -> "ja-JP"
      [] country = "kr" -> "ko-KR"
      [] country = "sg" -> "en-SG"
      [] country = "in" -> "en-IN"
      [] country = "de" -> "de-DE"
      [] OTHER -> "en-US"

BingTopicMap(topic) ==
    CASE topic = "business" -> <<"finance OR business">>
      [] topic = "technology" -> <<"tech OR technology">>
      [] topic = "crypto" -> <<"cryptocurrency OR bitcoin">>
      [] OTHER -> <<topic>>

BingCall(qy, key) ==
    LET p1 == ParamSet(EmptyParams, "sortBy", <<"Date">>)
        p2 == ParamSet(p1, "mkt", <<MktMap(qy.country)>>)
        finalQuery == FullQuery(qy.q, qy.topic, BingTopicMap(qy.topic))
        p3 == ParamSet(p2, "q", IF finalQuery # <<>> THEN finalQuery ELSE <<"world news">>)
    IN  Call("Bing", BING_NEWS_URL, p3, BING_HEADERS(key))

\* the call an adapter issues once its credential check has passed
OutboundCall(v, p, qy, key) ==
    CASE p = "Bing" -> BingCall(qy, key)
      [] p = "GNews" /\ v = "first" -> GNewsCallFirst(qy)
      [] p = "GNews" /\ v = "double" -> GNewsCallDouble(qy, key)
      [] p = "GNews" /\ v = "triple" -> GNewsCallTriple(qy, key)
      [] p = "NewsAPI" /\ v = "first" -> NewsApiCallFirst(qy, key)
      [] p = "NewsAPI" /\ v = "double" -> NewsApiCallDouble(qy, key)
      [] p = "NewsAPI" /\ v = "triple" -> NewsApiCallTriple(qy, key)

----------------------------------------------------------------------------
(* Headers objects: names are case-insensitive and kept in lower case *)

LowerCase(name) ==
    CASE name = "Access-Control-Allow-Origin" -> "access-control-allow-origin"
      [] name = "Access-Control-Allow-Methods" -> "access-control-allow-methods"
      [] name = "Content-Encoding" -> "content-encoding"
      [] name = "Content-Length" -> "content-length"
      [] name = "Transfer-Encoding" -> "transfer-encoding"
      [] name = "Content-Type" -> "content-type"
      [] OTHER -> name

EmptyHeaders == [n \in {} |-> ""]

HeadersSet(h, name, value) ==
    [n \in DOMAIN h \cup {LowerCase(name)} |->
        IF n = LowerCase(name) THEN value ELSE h[n]]

HeadersDelete(h, name) == [n \in DOMAIN h \ {LowerCase(name)} |-> h[n]]

\* new Response(string): the runtime labels a string body as text/plain
StringBodyHeaders == HeadersSet(EmptyHeaders, "Content-Type", "text/plain;charset=UTF-8")

----------------------------------------------------------------------------
(* What a provider may answer *)

PlainHeaders == HeadersSet(EmptyHeaders, "Content-Type", "application/json")

CompressedHeaders ==
    HeadersSet(HeadersSet(PlainHeaders, "Content-Encoding", "gzip"), "Content-Length", "512")

OwnCorsHeaders ==
    HeadersSet(HeadersSet(HeadersSet(HeadersSet(EmptyHeaders,
        "Access-Control-Allow-Origin", "https://provider.example"),
        "Access-Control-Allow-Methods", "GET"),
        "Transfer-Encoding", "chunked"),
        "cache-control", "max-age=60")

ProviderHeaders == {PlainHeaders, CompressedHeaders, OwnCorsHeaders}

\* a body: whether it parses as JSON, and the parsed value
NotJson == [valid |-> FALSE, data |-> [n \in {} |-> ""]]

Json(data) == [valid |-> TRUE, data |-> data]

EmptyObject == [n \in {} |-> ""]

FullItem ==
    [name |-> "Headline", description |-> "Text", url |-> "https://news.example/1",
     image |-> [thumbnail |-> [contentUrl |-> "https://news.example/1.jpg"]],
     datePublished |-> "2024-01-01T00:00:00Z",
     provider |-> <<[name |-> "Example Times"]>>]

BareItem == [name |-> "Headline", url |-> "https://news.example/2"]

ProviderBodies(p, status) ==
    IF p = "GNews" THEN {Json([articles |-> <<"gnews article">>])}
    ELSE IF p = "NewsAPI" THEN
        IF Ok(status) THEN {Json([articles |-> <<"newsapi article">>])}
        ELSE {NotJson, Json(EmptyObject),
              Json([code |-> "rateLimited", message |-> "Too many requests"]),
              Json([code |-> "apiKeyInvalid"])}
    ELSE
        IF Ok(status) THEN {NotJson, Json(EmptyObject), Json([value |-> <<>>]),
                            Json([value |-> <<FullItem>>]),
                            Json([value |-> <<BareItem, FullItem>>])}
        ELSE {NotJson, Json(EmptyObject),
              Json([errors |-> <<[message |-> "Access denied"]>>]),
              Json([message |-> "Quota exceeded"])}

ProviderResponses(p) ==
    UNION {{[status |-> st, headers |-> h, body |-> b] :
                h \in ProviderHeaders, b \in ProviderBodies(p, st)} : st \in Statuses}

\* fetch rejects under a fixed upstream
UpstreamThrows(u, call) == u = "down" /\ call.provider \in {"Bing", "NewsAPI"}

\* the response of a fixed upstream to an outbound call
UpstreamResponse(u, call) ==
    CASE call.provider = "GNews" ->
            [status |-> IF u = "rejectsLang"
                        THEN (IF "lang" \in DOMAIN call.params THEN 400 ELSE 200)
                        ELSE 429,
             headers |-> CompressedHeaders,
             body |-> Json([articles |-> <<"gnews article">>])]
      [] call.provider = "NewsAPI" ->
            IF u = "rejectsLang"
            THEN [status |-> 200, headers |-> OwnCorsHeaders,
                  body |-> Json([articles |-> <<"newsapi article">>])]
            ELSE [status |-> 429, headers |-> PlainHeaders,
                  body |-> Json([code |-> "rateLimited", message |-> "Too many requests"])]
      [] call.provider = "Bing" ->
            [status |-> IF u = "rejectsLang" THEN 403 ELSE 429,
             headers |-> PlainHeaders,
             body |-> Json([message |-> "Quota exceeded"])]

\* what fetch may resolve with for an outbound call
Responses(u, call) ==
    IF u = "free" THEN ProviderResponses(call.provider)
    ELSE IF UpstreamThrows(u, call) THEN {}
    ELSE {UpstreamResponse(u, call)}

\* whether fetch may reject for an outbound call
MayThrow(u, call) == u = "free" \/ UpstreamThrows(u, call)

----------------------------------------------------------------------------
(* Response builders *)

buildResponseKeepsFraming(resp) ==
    LET h1 == HeadersSet(resp.headers, "Access-Control-Allow-Origin", "*")
        newHeaders == HeadersSet(h1, "Access-Control-Allow-Methods",
                                 "GET, HEAD, POST, OPTIONS")
    IN  [status |-> resp.status, headers |-> newHeaders, body |-> resp.body]

buildResponse(resp) ==
    LET h0 == resp.headers
        h1 == HeadersSet(h0, "Access-Control-Allow-Origin", "*")
        h2 == HeadersSet(h1, "Access-Control-Allow-Methods", "GET, HEAD, POST, OPTIONS")
        h3 == HeadersDelete(h2, "Content-Encoding")
        h4 == HeadersDelete(h3, "Content-Length")
        newHeaders == HeadersDelete(h4, "Transfer-Encoding")
    IN  [status |-> resp.status, headers |-> newHeaders, body |-> resp.body]

buildErrorResponse(message, status) ==
    [status |-> status,
     headers |-> HeadersSet(StringBodyHeaders, "Access-Control-Allow-Origin", "*"),
     body |-> Json([errors |-> <<[message |-> message]>>])]

----------------------------------------------------------------------------
(* Adapters: the result object each returns *)

Usable(status, resp) == [status |-> status, response |-> resp]

FailedWith(status, message) == [status |-> status, failed |-> TRUE, message |-> message]

FailedAlways(res) == TRUE

\* result.failed
Failed(res) == "failed" \in DOMAIN res /\ res.failed

\* the result of an adapter whose credential check fails
ConfigFailure(p) ==
    CASE p = "Bing" -> FailedWith(500, <<"Bing News API Key not configured">>)
      [] p = "GNews" -> FailedWith(500, <<"GNews API Key not configured">>)
      [] p = "NewsAPI" -> FailedWith(500, <<"News API Key not configured">>)

\* whether the adapter of provider p in edition v reads a secret before calling
ChecksCredential(v, p) == ~(v = "first" /\ p = "GNews")

GNewsPassesOnlyOk(status) == Ok(status)

GNewsPassesThrough(status) == Ok(status) \/ (status # 429 /\ status # 403)

GNewsClassify(v, resp) ==
    IF GNewsPassesThrough(resp.status)
    THEN Usable(resp.status, resp)
    ELSE IF v = "first"
         THEN [status |-> resp.status, failed |-> TRUE]
         ELSE FailedWith(resp.status,
                         <<"GNews API error (", ToString(resp.status), ")">>)

\* await response.json().catch(() => ({}))
JsonOrEmpty(body) == IF body.valid THEN body.data ELSE EmptyObject

\* obj.field, with "" for undefined
Field(obj, name) == IF name \in DOMAIN obj THEN obj[name] ELSE ""

NewsApiClassify(resp) ==
    IF Ok(resp.status)
    THEN Usable(resp.status, resp)
    ELSE LET errorData == JsonOrEmpty(resp.body)
             debugMessage ==
                 IF Truthy(Field(errorData, "code")) /\ Truthy(Field(errorData, "message"))
                 THEN <<"News API error: [", errorData.code, "] ", errorData.message>>
                 ELSE <<"News API failed (", ToString(resp.status), ").">>
         IN  FailedWith(resp.status, debugMessage)

NewsApiTransportFailure ==
    FailedWith(503, <<"News API network connection timed out or DNS failed.">>)

BingTransportFailure ==
    FailedWith(503, <<"Bing News API network connection failed or timed out.">>)

\* one Bing item as an article; JSON.stringify drops the undefined properties
BingArticle(item) ==
    LET present == {f \in {"name", "description", "url", "datePublished"} : f \in DOMAIN item}
        target(f) == CASE f = "name" -> "title"
                       [] f = "datePublished" -> "publishedAt"
                       [] OTHER -> f
        flat == [t \in {target(f) : f \in present} |->
                    item[CHOOSE f \in present : target(f) = t]]
        withImage == IF "image" \in DOMAIN item
                     THEN ParamSet(flat, "image", item.image.thumbnail.contentUrl)
                     ELSE flat
        sourceName == IF "provider" \in DOMAIN item /\ Len(item.provider) > 0
                         /\ Truthy(Field(item.provider[1], "name"))
                      THEN item.provider[1].name ELSE "Bing News"
    IN  ParamSet(withImage, "source", sourceName)

BingArticles(bingData) ==
    LET value == IF "value" \in DOMAIN bingData THEN bingData.value ELSE <<>>
    IN  [i \in 1..Len(value) |-> BingArticle(value[i])]

BingClassify(resp) ==
    IF Ok(resp.status)
    THEN IF ~resp.body.valid
         THEN BingTransportFailure
         ELSE Usable(200, [status |-> 200, headers |-> StringBodyHeaders,
                           body |-> Json([articles |-> BingArticles(resp.body.data)])])
    ELSE LET errorData == JsonOrEmpty(resp.body)
             first == IF "errors" \in DOMAIN errorData /\ Len(errorData.errors) > 0
                      THEN Field(errorData.errors[1], "message") ELSE ""
             errorMsg == IF Truthy(first) THEN <<first>>
                         ELSE IF Truthy(Field(errorData, "message"))
                         THEN <<errorData.message>>
                         ELSE <<"Bing API failed with status ", ToString(resp.status)>>
         IN  FailedWith(resp.status, <<"Bing News API error: ">> \o errorMsg)

\* the adapter's result once fetch has resolved with resp
Classify(v, p, resp) ==
    CASE p = "Bing" -> BingClassify(resp)
      [] p = "GNews" -> GNewsClassify(v, resp)
      [] p = "NewsAPI" -> NewsApiClassify(resp)

\* whether the adapter wraps its fetch in try/catch
CatchesTransport(p) == p \in {"Bing", "NewsAPI"}

TransportFailure(p) ==
    CASE p = "Bing" -> BingTransportFailure
      [] p = "NewsAPI" -> NewsApiTransportFailure

----------------------------------------------------------------------------
(* handleRequest *)

\* the adapters in the order handleRequest awaits them
Order(v) == IF v = "triple" THEN <<"Bing", "GNews", "NewsAPI">> ELSE <<"GNews", "NewsAPI">>

\* `${result.message}` and result.message || 'Unknown'
MessageText(res) == IF "message" \in DOMAIN res THEN res.message ELSE <<"undefined">>

MessageOrUnknown(res) ==
    IF "message" \in DOMAIN res /\ res.message # <<>> THEN res.message ELSE <<"Unknown">>

\* the text handed to buildErrorResponse after the last adapter has failed
AllFailedMessage(v, res) ==
    CASE v = "first" -> <<"GNews failed. Failover failed: ">> \o MessageText(res)
      [] v = "double" ->
            <<"All API sources failed. GNews/News API error: ">> \o MessageText(res)
      [] v = "triple" ->
            <<"All API sources failed. Bing/GNews/News API error: ">> \o MessageText(res)

ALL_FAILED_STATUS == 503

\* console.log between two attempts (the first edition logs nothing)
FailoverLog(v, p, next, res) ==
    IF v = "first" THEN <<>>
    ELSE << <<p, " failed: ">> \o MessageOrUnknown(res) \o <<". Attempting ", next, ".">> >>

NoResponse == [status |-> 0, headers |-> EmptyHeaders, body |-> NotJson]

NoResult == [status |-> 0]

NoQuery == [country |-> NULL, topic |-> NULL, q |-> NULL, sortby |-> NULL, lang |-> NULL]

\* the outbound call a suspended adapter is waiting on
LastCall(r) == calls[r][Len(calls[r])]

Provider(r) == Order(variant)[idx[r]]

\* what fetch did for the adapter that returned last: nothing asked, a response, a throw
NoAnswer == [kind |-> "none", provider |-> "", resp |-> NoResponse]

Answered(p, resp) == [kind |-> "response", provider |-> p, resp |-> resp]

Threw(p) == [kind |-> "threw", provider |-> p, resp |-> NoResponse]

\* the secret binding an adapter reads
KeyFor(p) == cred[p]

HasNextNever(v, i) == FALSE

\* whether another attempt follows the i-th one in handleRequest
HasNext(v, i) == i < Len(Order(v))

ResumeRetriesOnce(r, res) ==
    /\ result' = [result EXCEPT ![r] = res]
    /\ outcomes' = [outcomes EXCEPT ![r] = Append(@, res)]
    /\ IF ~Failed(res)
       THEN /\ response' = [response EXCEPT ![r] = buildResponse(res.response)]
            /\ pc' = [pc EXCEPT ![r] = "done"]
            /\ UNCHANGED <<idx, log>>
       ELSE IF Len(attempts[r]) < 2
       THEN /\ pc' = [pc EXCEPT ![r] = "attempt"]
            /\ UNCHANGED <<idx, log, response>>
       ELSE IF HasNext(variant, idx[r])
       THEN /\ idx' = [idx EXCEPT ![r] = @ + 1]
            /\ pc' = [pc EXCEPT ![r] = "attempt"]
            /\ UNCHANGED <<log, response>>
       ELSE /\ response' = [response EXCEPT ![r] =
                               buildErrorResponse(AllFailedMessage(variant, res),
                                                  ALL_FAILED_STATUS)]
            /\ pc' = [pc EXCEPT ![r] = "done"]
            /\ UNCHANGED <<idx, log>>

\* handleRequest resumes with the result res of the adapter it awaited
Resume(r, res) ==
    /\ result' = [result EXCEPT ![r] = res]
    /\ outcomes' = [outcomes EXCEPT ![r] = Append(@, res)]
    /\ IF ~Failed(res)
       THEN /\ response' = [response EXCEPT ![r] = buildResponse(res.response)]
            /\ pc' = [pc EXCEPT ![r] = "done"]
            /\ UNCHANGED <<idx, log>>
       ELSE IF HasNext(variant, idx[r])
       THEN /\ idx' = [idx EXCEPT ![r] = @ + 1]
            /\ pc' = [pc EXCEPT ![r] = "attempt"]
            /\ log' = [log EXCEPT ![r] =
                          @ \o FailoverLog(variant, Provider(r),
                                           Order(variant)[idx[r] + 1], res)]
            /\ UNCHANGED response
       ELSE /\ response' = [response EXCEPT ![r] =
                               buildErrorResponse(AllFailedMessage(variant, res),
                                                  ALL_FAILED_STATUS)]
            /\ pc' = [pc EXCEPT ![r] = "done"]
            /\ UNCHANGED <<idx, log>>

----------------------------------------------------------------------------
(* Actions *)

\* the fetch listener: handleRequest reads country, topic and q from the URL
FetchEvent(r) ==
    /\ r \in reqs
    /\ pc[r] = "idle"
    /\ \E qy \in Inbound(variant, upstream) : query' = [query EXCEPT ![r] = qy]
    /\ pc' = [pc EXCEPT ![r] = "attempt"]
    /\ UNCHANGED <<variant, cred, reqs, idx, result, outcomes, calls, response, log,
                   attempts, answer, upstream>>

\* the next adapter finds its key undefined or too short and returns at once
AdapterRejectsCredential(r) ==
    /\ pc[r] = "attempt"
    /\ ChecksCredential(variant, Provider(r))
    /\ KeyMissing(KeyFor(Provider(r)))
    /\ Resume(r, ConfigFailure(Provider(r)))
    /\ attempts' = [attempts EXCEPT ![r] = Append(@, Provider(r))]
    /\ answer' = [answer EXCEPT ![r] = NoAnswer]
    /\ UNCHANGED <<variant, cred, reqs, query, calls, upstream>>

AdapterFetchesNoAwait(r) ==
    /\ pc[r] = "attempt"
    /\ ~(ChecksCredential(variant, Provider(r)) /\ KeyMissing(KeyFor(Provider(r))))
    /\ calls' = [calls EXCEPT ![r] =
                    Append(@, OutboundCall(variant, Provider(r), query[r],
                                           KeyFor(Provider(r)).key))]
    /\ pc' = [pc EXCEPT ![r] = IF HasNext(variant, idx[r]) THEN "attempt" ELSE "fetching"]
    /\ idx' = [idx EXCEPT ![r] = IF HasNext(variant, idx[r]) THEN @ + 1 ELSE @]
    /\ attempts' = [attempts EXCEPT ![r] = Append(@, Provider(r))]
    /\ UNCHANGED <<variant, cred, reqs, query, result, outcomes, response, log, answer,
                   upstream>>

\* the next adapter builds its URL and suspends on fetch
AdapterFetches(r) ==
    /\ pc[r] = "attempt"
    /\ ~(ChecksCredential(variant, Provider(r)) /\ KeyMissing(KeyFor(Provider(r))))
    /\ calls' = [calls EXCEPT ![r] =
                    Append(@, OutboundCall(variant, Provider(r), query[r],
                                           KeyFor(Provider(r)).key))]
    /\ pc' = [pc EXCEPT ![r] = "fetching"]
    /\ attempts' = [attempts EXCEPT ![r] = Append(@, Provider(r))]
    /\ UNCHANGED <<variant, cred, reqs, query, idx, result, outcomes, response, log,
                   answer, upstream>>

\* the provider answers; the adapter classifies and handleRequest goes on
FetchResolves(r) ==
    /\ pc[r] = "fetching"
    /\ \E resp \in Responses(upstream, LastCall(r)) :
          /\ Resume(r, Classify(variant, Provider(r), resp))
          /\ answer' = [answer EXCEPT ![r] = Answered(Provider(r), resp)]
    /\ UNCHANGED <<variant, cred, reqs, query, calls, attempts, upstream>>

\* fetch rejects (DNS, connect, timeout): caught by the adapter, or not
FetchThrows(r) ==
    /\ pc[r] = "fetching"
    /\ MayThrow(upstream, LastCall(r))
    /\ IF CatchesTransport(Provider(r))
       THEN Resume(r, TransportFailure(Provider(r)))
       ELSE /\ pc' = [pc EXCEPT ![r] = "thrown"]
            /\ UNCHANGED <<idx, result, outcomes, response, log>>
    /\ answer' = [answer EXCEPT ![r] = Threw(Provider(r))]
    /\ UNCHANGED <<variant, cred, reqs, query, calls, attempts, upstream>>

\* the providers an edition uses; the secrets of the others stay unbound
Configured(v) == {Order(v)[i] : i \in 1..Len(Order(v))}

InitRequests(rs) ==
    /\ reqs = rs
    /\ pc = [r \in RequestIds |-> "idle"]
    /\ query = [r \in RequestIds |-> NoQuery]
    /\ idx = [r \in RequestIds |-> 1]
    /\ result = [r \in RequestIds |-> NoResult]
    /\ outcomes = [r \in RequestIds |-> <<>>]
    /\ calls = [r \in RequestIds |-> <<>>]
    /\ response = [r \in RequestIds |-> NoResponse]
    /\ log = [r \in RequestIds |-> <<>>]
    /\ attempts = [r \in RequestIds |-> <<>>]
    /\ answer = [r \in RequestIds |-> NoAnswer]

Init ==
    /\ variant \in Variants
    /\ cred \in [Providers -> Secrets]
    /\ \A p \in Providers \ Configured(variant) : cred[p] = Undefined
    /\ upstream = "free"
    /\ InitRequests({1})

Next ==
    \E r \in RequestIds :
        \/ FetchEvent(r)
        \/ AdapterRejectsCredential(r)
        \/ AdapterFetches(r)
        \/ FetchResolves(r)
        \/ FetchThrows(r)

Spec == Init /\ [][Next]_vars

\* the worker when every outbound call resolves with an HTTP response: no fetch
\* rejects, a pending fetch is eventually answered, and the runtime eventually
\* runs a handler that is ready to go on
RespondingNext ==
    \E r \in RequestIds :
        \/ FetchEvent(r)
        \/ AdapterRejectsCredential(r)
        \/ AdapterFetches(r)
        \/ FetchResolves(r)

RespondingFairness ==
    \A r \in RequestIds :
        /\ WF_vars(AdapterRejectsCredential(r))
        /\ WF_vars(AdapterFetches(r))
        /\ WF_vars(FetchResolves(r))

\* fixed upstreams; every secret is unbound or of the minimum accepted length
FixedInit(us, rs) ==
    /\ variant \in Variants
    /\ cred \in [Providers -> {Undefined, KeyOfLen(MIN_KEY_LENGTH)}]
    /\ \A p \in Providers \ Configured(variant) : cred[p] = Undefined
    /\ upstream \in us
    /\ InitRequests(rs)

\* one request against an upstream that answers every call
LiveInit == FixedInit({"rejectsLang", "quota"}, {1})

LiveSpec == LiveInit /\ [][RespondingNext]_vars /\ RespondingFairness

\* two requests in flight at once: the runtime interleaves their handlers at the
\* awaits, in any order
PairInit == FixedInit(Upstreams, RequestIds)

PairSpec == PairInit /\ [][Next]_vars

----------------------------------------------------------------------------
(* Properties *)

\* an outcome that carries a response / that carries the failed flag
IsUsable(res) == "response" \in DOMAIN res

IsFailed(res) == "failed" \in DOMAIN res

\* the priority order the editions are documented to follow
PriorityOrder ==
    IF variant = "triple" THEN <<"Bing", "GNews", "NewsAPI">> ELSE <<"GNews", "NewsAPI">>

Priority(p) == CHOOSE i \in 1..Len(PriorityOrder) : PriorityOrder[i] = p

Finished(r) == pc[r] = "done"

\* C1: once an adapter has returned a usable outcome, no adapter later in the
\* priority order is invoked and no outbound call goes to a later provider; the
\* request is finished with that outcome.
C1_ShortCircuit ==
    \A r \in reqs : \A i \in 1..Len(outcomes[r]) :
        IsUsable(outcomes[r][i]) =>
            /\ Len(attempts[r]) = i
            /\ \A k \in 1..Len(calls[r]) : Priority(calls[r][k].provider) <= i
            /\ Finished(r)

C1_Witness ==
    \E r \in reqs :
        /\ variant = "triple"
        /\ Finished(r)
        /\ Len(outcomes[r]) = 1
        /\ IsUsable(outcomes[r][1])
        /\ Len(calls[r]) = 1
        /\ calls[r][1].provider = "Bing"

\* C2: the adapters are invoked in the fixed priority order, and a request
\* whose i-th adapter returned Failed, with an (i+1)-th configured, is not
\* answered before the (i+1)-th adapter has been invoked.
C2_FailoverAdvance ==
    \A r \in reqs :
        /\ Len(attempts[r]) <= Len(PriorityOrder)
        /\ \A j \in 1..Len(attempts[r]) : attempts[r][j] = PriorityOrder[j]
        /\ \A i \in 1..Len(outcomes[r]) :
              (IsFailed(outcomes[r][i]) /\ i < Len(PriorityOrder) /\ Finished(r))
                  => /\ Len(attempts[r]) >= i + 1
                     /\ attempts[r][i + 1] = PriorityOrder[i + 1]

C2_Witness ==
    \E r \in reqs :
        /\ variant = "triple"
        /\ Finished(r)
        /\ Len(outcomes[r]) = 3
        /\ outcomes[r][1] = BingTransportFailure
        /\ IsFailed(outcomes[r][2]) /\ outcomes[r][2].status = 429
        /\ attempts[r] = <<"Bing", "GNews", "NewsAPI">>
        /\ Len(calls[r]) = 2

\* every adapter of the request has returned Failed and handleRequest has answered
AllFailed(r) ==
    /\ Finished(r)
    /\ Len(outcomes[r]) = Len(PriorityOrder)
    /\ \A i \in 1..Len(outcomes[r]) : IsFailed(outcomes[r][i])

LastOutcome(r) == outcomes[r][Len(outcomes[r])]

\* the request was answered with a provider's response
Relayed(r) == Finished(r) /\ Len(outcomes[r]) > 0 /\ IsUsable(LastOutcome(r))

\* the message of the JSON error body
ErrorText(r) == response[r].body.data.errors[1].message

ErrorBodyShape(r) ==
    /\ response[r].body.valid
    /\ DOMAIN response[r].body.data = {"errors"}
    /\ Len(response[r].body.data.errors) = 1
    /\ DOMAIN response[r].body.data.errors[1] = {"message"}

OccursAt(text, part, k) ==
    /\ k + Len(part) - 1 <= Len(text)
    /\ SubSeq(text, k, k + Len(part) - 1) = part

RECURSIVE InOrderFrom(_, _, _)
\* the parts occur in text one after the other, the first at or after `from`
InOrderFrom(text, parts, from) ==
    IF parts = <<>> THEN TRUE
    ELSE \E k \in from..Len(text) :
            /\ OccursAt(text, Head(parts), k)
            /\ InOrderFrom(text, Tail(parts), k + Len(Head(parts)))

\* the diagnostic messages of the failed outcomes, in attempt order
Diagnostics(r) ==
    LET withMessage == SelectSeq(outcomes[r], LAMBDA o : "message" \in DOMAIN o)
    IN  [i \in 1..Len(withMessage) |-> withMessage[i].message]

\* C3: when every attempted adapter returned Failed, the error message contains
\* the diagnostic of every attempted adapter, in attempt order.
C3_AggregatedDiagnostics ==
    \A r \in reqs :
        AllFailed(r) => InOrderFrom(ErrorText(r), Diagnostics(r), 1)

\* C4: when every adapter failed, the body is {errors:[{message}]} and the status
\* is 500 if every adapter failed its credential check and 503 otherwise.
C4_ErrorStatus ==
    \A r \in reqs :
        AllFailed(r) =>
            /\ ErrorBodyShape(r)
            /\ response[r].status =
                  IF \A i \in 1..Len(outcomes[r]) :
                        outcomes[r][i] = ConfigFailure(attempts[r][i])
                  THEN 500 ELSE 503

CallsTo(r, p) == {k \in 1..Len(calls[r]) : calls[r][k].provider = p}

\* C5: an adapter whose secret is undefined or shorter than 5 characters returns
\* the configuration failure and calls nothing; every outbound call goes to a
\* provider whose secret has at least 5 characters.
C5_CredentialGating ==
    \A r \in reqs :
        /\ \A k \in 1..Len(calls[r]) :
              /\ cred[calls[r][k].provider].defined
              /\ Len(cred[calls[r][k].provider].key) >= 5
        /\ \A i \in 1..Len(attempts[r]) :
              KeyMissing(cred[attempts[r][i]]) =>
                  /\ CallsTo(r, attempts[r][i]) = {}
                  /\ i <= Len(outcomes[r])
                  /\ outcomes[r][i] = ConfigFailure(attempts[r][i])

\* C6: a fetch that throws never ends handleRequest with an exception: the
\* adapter returns Failed with status 503 and the request goes on.
C6_NoUncaughtFault ==
    \A r \in reqs :
        /\ pc[r] # "thrown"
        /\ answer[r].kind = "threw" =>
              /\ Len(outcomes[r]) > 0
              /\ IsFailed(LastOutcome(r))
              /\ LastOutcome(r).status = 503

C8_SearchRouting ==
    \A r \in reqs : \A k \in 1..Len(calls[r]) :
        Truthy(query[r].q) =>
            LET c == calls[r][k]
            IN  /\ c.provider = "GNews" =>
                      c.url = GNEWS_SEARCH_URL /\ "topic" \notin DOMAIN c.params
                /\ c.provider = "NewsAPI" =>
                      c.url = NEWSAPI_SEARCH_URL /\ "category" \notin DOMAIN c.params

\* C9: with topic present and q absent, GNews and NewsAPI are called on their
\* top-headlines endpoints with the topic as category parameter and without q.
C9_CategoryRouting ==
    \A r \in reqs : \A k \in 1..Len(calls[r]) :
        (Truthy(query[r].topic) /\ ~Truthy(query[r].q)) =>
            LET c == calls[r][k]
            IN  /\ c.provider = "GNews" =>
                      /\ c.url = GNEWS_API_URL
                      /\ "topic" \in DOMAIN c.params
                      /\ c.params["topic"] = <<query[r].topic>>
                      /\ "q" \notin DOMAIN c.params
                /\ c.provider = "NewsAPI" =>
                      /\ c.url = NEWSAPI_URL
                      /\ "category" \in DOMAIN c.params
                      /\ c.params["category"] = <<query[r].topic>>
                      /\ "q" \notin DOMAIN c.params

RewrittenHeaders ==
    {"access-control-allow-origin", "access-control-allow-methods",
     "content-encoding", "content-length", "transfer-encoding"}

\* the CORS headers are forced and the framing headers are gone
CorsAndFraming(h) ==
    /\ "access-control-allow-origin" \in DOMAIN h
    /\ h["access-control-allow-origin"] = "*"
    /\ "access-control-allow-methods" \in DOMAIN h
    /\ h["access-control-allow-methods"] = "GET, HEAD, POST, OPTIONS"
    /\ DOMAIN h \cap {"content-encoding", "content-length", "transfer-encoding"} = {}

\* every header of `from` that is not rewritten is in h with the same value
OthersRelayed(h, from) ==
    \A n \in DOMAIN from \ RewrittenHeaders : n \in DOMAIN h /\ h[n] = from[n]

\* C10 as claimed: a relayed response has the CORS headers forced, the framing
\* headers stripped, and every other header of the provider's response unchanged.
C10_RelayedHeaders ==
    \A r \in reqs :
        Relayed(r) =>
            /\ CorsAndFraming(response[r].headers)
            /\ OthersRelayed(response[r].headers, answer[r].resp.headers)

\* C10 amended: the CORS headers are forced and the framing headers stripped for
\* every provider; every other header of a GNews or NewsAPI response is relayed
\* unchanged and none is added, while a Bing success carries, besides the CORS
\* headers, only the content type of the rebuilt string body.
C10_RelayedHeadersAmended ==
    \A r \in reqs :
        Relayed(r) =>
            /\ CorsAndFraming(response[r].headers)
            /\ answer[r].provider # "Bing" =>
                  /\ OthersRelayed(response[r].headers, answer[r].resp.headers)
                  /\ DOMAIN response[r].headers \ RewrittenHeaders
                        = DOMAIN answer[r].resp.headers \ RewrittenHeaders
            /\ answer[r].provider = "Bing" =>
                  /\ DOMAIN response[r].headers \ RewrittenHeaders = {"content-type"}
                  /\ response[r].headers["content-type"] = "text/plain;charset=UTF-8"

C10_Witness ==
    \E r \in reqs :
        /\ Relayed(r)
        /\ answer[r].provider = "NewsAPI"
        /\ answer[r].resp.headers = CompressedHeaders
        /\ "content-encoding" \notin DOMAIN response[r].headers
        /\ response[r].headers["content-type"] = "application/json"

\* the adapters of request r that were invoked and have not returned
Pending(r) == Len(attempts[r]) - Len(outcomes[r])

\* C12: within a request at most one adapter, hence at most one outbound call,
\* is pending at any time, and the call of the i-th adapter is issued only after
\* every earlier adapter has returned and its outcome was Failed.
C12_SequentialAttempts ==
    \A r \in reqs :
        /\ Pending(r) \in {0, 1}
        /\ Len(calls[r]) <= Len(attempts[r])
        /\ pc[r] = "fetching" <=> (Pending(r) = 1 /\ pc[r] # "thrown")
        /\ \A i \in 1..Len(attempts[r]) : \A j \in 1..(i - 1) :
              j <= Len(outcomes[r]) /\ IsFailed(outcomes[r][j])

C12_Witness ==
    \E r \in reqs :
        /\ pc[r] = "fetching"
        /\ Len(calls[r]) = 2
        /\ Len(outcomes[r]) = 1
        /\ IsFailed(outcomes[r][1])
        /\ answer[r].kind = "response"

\* C13: a relayed response has the status the selected provider answered with;
\* the body of GNews and NewsAPI is the provider's body, and Bing's body is
\* reshaped into {articles: [...]}.
C13_RelaysProviderResult ==
    \A r \in reqs :
        Relayed(r) =>
            /\ response[r].status = answer[r].resp.status
            /\ answer[r].provider \in {"GNews", "NewsAPI"} =>
                  response[r].body = answer[r].resp.body
            /\ answer[r].provider = "Bing" =>
                  /\ response[r].body.valid
                  /\ DOMAIN response[r].body.data = {"articles"}

\* the elements of a sequence of fragments
Fragments(text) == {text[k] : k \in 1..Len(text)}

\* a non-2xx answer gave Failed with the answer's status and a diagnostic
RejectedWithStatus(r) ==
    /\ IsFailed(LastOutcome(r))
    /\ ~IsUsable(LastOutcome(r))
    /\ LastOutcome(r).status = answer[r].resp.status
    /\ "message" \in DOMAIN LastOutcome(r)
    /\ LastOutcome(r).message # <<>>

C15_OutcomeShape ==
    \A r \in reqs : \A i \in 1..Len(outcomes[r]) :
        LET o == outcomes[r][i]
        IN  /\ IsUsable(o) # IsFailed(o)
            /\ IsFailed(o) => ("message" \in DOMAIN o /\ o.message # <<>>)

GNewsCalls(r) == {calls[r][k] : k \in CallsTo(r, "GNews")}

\* the call carries a topic parameter together with country cn or hk
Conflicting(c) ==
    /\ "topic" \in DOMAIN c.params
    /\ "country" \in DOMAIN c.params
    /\ c.params["country"] \in {<<"cn">>, <<"hk">>}

\* C16: no outbound GNews request carries a topic together with country cn or
\* hk; for such a query the call is issued without the country parameter.
C16_NoCountryTopicConflict ==
    \A r \in reqs : \A c \in GNewsCalls(r) :
        /\ ~Conflicting(c)
        /\ (query[r].country \in {"cn", "hk"} /\ "topic" \in DOMAIN c.params)
              => "country" \notin DOMAIN c.params

ChineseMarket(country) == IF country = "cn" THEN <<"zh-CN">> ELSE <<"zh-HK">>

BingLocale(r, c) ==
    c.provider = "Bing" =>
        "mkt" \in DOMAIN c.params /\ c.params["mkt"] = ChineseMarket(query[r].country)

\* C17 as claimed: for country cn or hk every NewsAPI call carries language=zh
\* and every Bing call the Chinese market, whichever endpoint is selected.
C17_LocaleOverride ==
    \A r \in reqs : \A k \in 1..Len(calls[r]) :
        query[r].country \in {"cn", "hk"} =>
            LET c == calls[r][k]
            IN  /\ c.provider = "NewsAPI" =>
                      "language" \in DOMAIN c.params /\ c.params["language"] = <<"zh">>
                /\ BingLocale(r, c)

\* C17 amended: for country cn or hk every Bing call carries the Chinese
\* market; a NewsAPI call to /everything carries language=zh and no country,
\* and a NewsAPI call to /top-headlines carries the country and no language.
C17_LocaleOverrideAmended ==
    \A r \in reqs : \A k \in 1..Len(calls[r]) :
        query[r].country \in {"cn", "hk"} =>
            LET c == calls[r][k]
            IN  /\ (c.provider = "NewsAPI" /\ c.url = "https://newsapi.org/v2/everything") =>
                      /\ "language" \in DOMAIN c.params
                      /\ c.params["language"] = <<"zh">>
                      /\ "country" \notin DOMAIN c.params
                /\ (c.provider = "NewsAPI" /\ c.url = "https://newsapi.org/v2/top-headlines") =>
                      /\ "language" \notin DOMAIN c.params
                      /\ "country" \in DOMAIN c.params
                      /\ c.params["country"] = <<query[r].country>>
                /\ BingLocale(r, c)

C17_Witness ==
    \E r \in reqs : \E k \in 1..Len(calls[r]) :
        /\ query[r].country = "hk"
        /\ calls[r][k].provider = "NewsAPI"
        /\ calls[r][k].url = "https://newsapi.org/v2/everything"
        /\ calls[r][k].params["language"] = <<"zh">>
        /\ \E j \in 1..Len(calls[r]) :
              calls[r][j].provider = "Bing" /\ calls[r][j].params["mkt"] = <<"zh-HK">>

\* C20: a GNews call carries the caller's country unless the call itself
\* carries a topic together with country cn or hk.
C20_CountryPreserved ==
    \A r \in reqs : \A c \in GNewsCalls(r) :
        (Truthy(query[r].country)
            /\ ~("topic" \in DOMAIN c.params /\ query[r].country \in {"cn", "hk"}))
        => /\ "country" \in DOMAIN c.params
           /\ c.params["country"] = <<query[r].country>>

\* C18: every outbound call carries its provider's newest-first sort parameter,
\* also when the caller supplied a sort of its own.
C18_NewestFirst ==
    \A r \in reqs : \A k \in 1..Len(calls[r]) :
        LET c == calls[r][k]
        IN  /\ c.provider = "GNews" =>
                  "sortby" \in DOMAIN c.params /\ c.params["sortby"] = <<"publishedAt">>
            /\ c.provider = "NewsAPI" =>
                  "sortBy" \in DOMAIN c.params /\ c.params["sortBy"] = <<"publishedAt">>
            /\ c.provider = "Bing" =>
                  "sortBy" \in DOMAIN c.params /\ c.params["sortBy"] = <<"Date">>

C18_Witness ==
    \E r \in reqs :
        /\ variant = "first"
        /\ query[r].sortby = "relevance"
        /\ Len(calls[r]) = 2
        /\ calls[r][1].provider = "GNews"
        /\ calls[r][1].params["sortby"] = <<"publishedAt">>
        /\ calls[r][2].params["sortBy"] = <<"publishedAt">>

\* each provider is attempted and called at most once, hence at most N calls
AtMostOnce(r) ==
    /\ \A i, j \in 1..Len(attempts[r]) : attempts[r][i] = attempts[r][j] => i = j
    /\ \A i, j \in 1..Len(calls[r]) :
          calls[r][i].provider = calls[r][j].provider => i = j
    /\ Len(calls[r]) <= Len(PriorityOrder)

\* C19: when every outbound call resolves with an HTTP response, every request
\* that has started is eventually answered, the answer never changes afterwards,
\* and no provider is attempted or called twice.
C19_BoundedTermination ==
    /\ [](\A r \in RequestIds : AtMostOnce(r))
    /\ [][\A r \in RequestIds :
            pc[r] = "done" => (pc'[r] = "done" /\ response'[r] = response[r])]_vars
    /\ \A r \in RequestIds : (pc[r] = "attempt") ~> (pc[r] = "done")

C19_Witness ==
    \E r \in reqs :
        /\ variant = "triple"
        /\ Finished(r)
        /\ Len(calls[r]) = 3
        /\ Len(attempts[r]) = 3
        /\ AllFailed(r)

\* handleRequest is over: it returned a response or rejected
Ended(r) == pc[r] \in {"done", "thrown"}

\* two inbound requests with identical country, topic and q
SameFilters(a, b) == a.country = b.country /\ a.topic = b.topic /\ a.q = b.q

\* C11: against providers that are a fixed function of the outbound call, two
\* requests with identical country, topic and q end with identical status,
\* headers and body, however their handlers are interleaved at the awaits.
C11_RequestIndependence ==
    \A r1 \in reqs, r2 \in reqs :
        (upstream # "free" /\ Ended(r1) /\ Ended(r2) /\ SameFilters(query[r1], query[r2]))
            => (pc[r1] = pc[r2] /\ response[r1] = response[r2])

====
